---- MODULE Spec2Model ----
(***************************************************************************)
(* Model of the payments API (src/payments-api/server.js) on top of its    *)
(* SQLite ledger (src/unnamed/part_001, imported as ./db.js).              *)
(*                                                                         *)
(* State: the two tables of the database (accounts, transfers), the wall   *)
(* clock, and for every in-flight POST /transfer request the position of   *)
(* its handler, the request it carries, the handler's locals and the       *)
(* response it sent.                                                       *)
(*                                                                         *)
(* A handler touches the database at four places: the idempotency lookup   *)
(* (an autocommit SELECT), the reads at the head of db.transaction (which  *)
(* open a deferred transaction and fix its WAL snapshot), the writes up to *)
(* COMMIT, and the best-effort INSERT of the catch block.  Between two of  *)
(* these places another server process on the same payments.db may run:    *)
(* the model has one action per place.  Runs in which each handler takes   *)
(* all its steps in a row are the runs of a single Node process.           *)
(*                                                                         *)
(* Amounts of the request body are decimals; the model counts them in      *)
(* thousandths of the currency unit ("milli"), so 15.004 is 15004, and     *)
(* balances and amount_cents in cents, as the code does.                   *)
(***************************************************************************)
EXTENDS Integers, Sequences, FiniteSets, TLC

(* ---------------------------- bounds ----------------------------------- *)

\* number of POST /transfer handlers that may be in flight at once
NumProcs == 2

\* the wall clock takes the values 0..MaxClock
MaxClock == 1

Procs == 1..NumProcs

(* ---------------------------- inputs ----------------------------------- *)

\* values of the Idempotency-Key header: absent, and two client keys
Headers == {"", "k1", "k2"}

Body(from, to, currency, amount) ==
  [fromAccountId |-> from, toAccountId |-> to, currency |-> currency,
   amount |-> amount]

\* request bodies; amounts in thousandths: 50.004, 50.00, 0.004, 0.
\* A-100 and B-200 are the seeded accounts, C-300 is no account.
Bodies ==
  { Body("A-100", "B-200", "BRL", 50004),   \* rounds to 5000 cents
    Body("B-200", "A-100", "BRL", 50000),   \* the whole seed balance of B-200
    Body("A-100", "C-300", "BRL", 50000),   \* destination unknown
    Body("C-300", "B-200", "BRL", 50000),   \* source unknown
    Body("A-100", "B-200", "USD", 50000),   \* currency of neither account
    Body("A-100", "B-200", "BRL", 4),       \* rounds to 0 cents
    Body("A-100", "B-200", "BRL", 0),       \* not positive
    Body("A-100", "A-100", "BRL", 50000),   \* same account twice
    Body("C-300", "C-300", "BRL", 50000),   \* same unknown account twice
    Body("A-100", "B-200", "BR", 50000) }   \* malformed currency

Requests == [header : Headers, body : Bodies]

(* ------------------------- database schema ----------------------------- *)

\* CHECK (length(currency)=3) of accounts and z.string().length(3)
CurrencyLen == 3

\* seed.run("A-100", "Alice", "BRL", 200_00)
SeedBalanceA == 20000

\* seed.run("B-200", "Bob", "BRL", 50_00)
SeedBalanceB == 5000

SeedAccounts ==
  [id \in {"A-100", "B-200"} |->
     IF id = "A-100"
       THEN [id |-> "A-100", owner_name |-> "Alice", currency |-> "BRL",
             balance_cents |-> SeedBalanceA]
       ELSE [id |-> "B-200", owner_name |-> "Bob", currency |-> "BRL",
             balance_cents |-> SeedBalanceB]]

\* the result of a SELECT ... .get() that matches no row (undefined)
NoRow == [none |-> TRUE]

\* CHECK (balance_cents >= 0)
BalanceCheck(balance_cents) == balance_cents >= 0

\* the transfers table without its CHECK on amount_cents
AmountCheck_None(amount_cents) == TRUE

\* CHECK (amount_cents > 0)
AmountCheck(amount_cents) == amount_cents > 0

\* CHECK (status IN ('COMPLETED','REVERSED','FAILED'))
StatusCheck(status) == status \in {"COMPLETED", "REVERSED", "FAILED"}

VARIABLES accounts, transfers, clock, pc, req, loc, resp

vars == <<accounts, transfers, clock, pc, req, loc, resp>>

(* --------------------------- pure helpers ------------------------------ *)

\* String(req.header("Idempotency-Key") || "").trim(): a header padded with
\* U+00A0 reaches the handler padded (the HTTP parser strips only SP and
\* HTAB) and trim() removes the padding
Trim(header) == IF header = "k1<NBSP>" THEN "k1" ELSE header

\* the schema without its final refine (distinct accounts)
ValidBody_NoRefine(body) ==
  /\ Len(body.fromAccountId) >= 1
  /\ Len(body.toAccountId) >= 1
  /\ Len(body.currency) = CurrencyLen
  /\ body.amount > 0

\* transferBodySchema.safeParse(req.body).success
ValidBody(body) ==
  /\ Len(body.fromAccountId) >= 1
  /\ Len(body.toAccountId) >= 1
  /\ Len(body.currency) = CurrencyLen
  /\ body.amount > 0
  /\ body.fromAccountId # body.toAccountId

\* Math.round(amount * 100): round half up, amount given in thousandths
\* (for the amounts of Bodies the floating-point product rounds the same way)
AmountCents(amount) == (amount + 5) \div 10

\* Number(cents) / 100, as a decimal in thousandths
CentsToDecimal(cents) == cents * 10

\* the lookup narrowed to completed transfers (... AND status = 'COMPLETED')
FindByKey_CompletedOnly(table, key) ==
  IF \E i \in 1..Len(table) :
       table[i].idempotency_key = key /\ table[i].status = "COMPLETED"
    THEN table[CHOOSE i \in 1..Len(table) :
                 table[i].idempotency_key = key /\ table[i].status = "COMPLETED"]
    ELSE NoRow

\* SELECT * FROM transfers WHERE idempotency_key = ?
FindByKey(table, key) ==
  IF \E i \in 1..Len(table) : table[i].idempotency_key = key
    THEN table[CHOOSE i \in 1..Len(table) : table[i].idempotency_key = key]
    ELSE NoRow

\* SELECT * FROM accounts WHERE id = ? AND currency = ?
GetAcc(accs, id, currency) ==
  IF id \in DOMAIN accs /\ accs[id].currency = currency THEN accs[id] ELSE NoRow

\* only the source account checked (!from)
AccountMissing_FromOnly(from, to) == from = NoRow

\* !from || !to
AccountMissing(from, to) == from = NoRow \/ to = NoRow

\* the balance check left out
InsufficientFunds_Skipped(from, amountCents) == FALSE

\* from.balance_cents < amountCents
InsufficientFunds(from, amountCents) == from.balance_cents < amountCents

\* the UPDATE without its WHERE clause: every row gets the balance
UpdateBalance_NoWhere(accs, id, balance_cents) ==
  [a \in DOMAIN accs |-> [accs[a] EXCEPT !.balance_cents = balance_cents]]

\* UPDATE accounts SET balance_cents = ? WHERE id = ?
UpdateBalance(accs, id, balance_cents) ==
  [accs EXCEPT ![id].balance_cents = balance_cents]

\* the commit counter of the WAL: every commit of this program appends
\* exactly one row to transfers, and rows are never deleted
DbVersion == Len(transfers)

\* a deferred transaction whose snapshot is no longer the newest
\* takes its writes as if the snapshot were current
StaleSnapshot_Ignored(snap) == FALSE

\* the first write of a deferred transaction finds that another connection
\* committed after its snapshot was taken (SQLITE_BUSY_SNAPSHOT)
StaleSnapshot(snap) == snap # DbVersion

\* the statements run outside db.transaction: the UPDATEs stay
Rollback_None(before, written) == written

\* db.transaction rolls back when its function throws: the accounts are as
\* before the transaction, whatever was written inside it
Rollback(before, written) == before

\* ulid(): a code no stored row carries
NewCode(table) == Len(table) + 1

\* the transfers table without UNIQUE on idempotency_key
InsertViolation_NoUniqueKey(table, row) ==
  IF ~AmountCheck(row.amount_cents)
    THEN "CHECK constraint failed: amount_cents > 0"
  ELSE IF ~StatusCheck(row.status)
    THEN "CHECK constraint failed: status"
  ELSE IF \E i \in 1..Len(table) : table[i].code = row.code
    THEN "UNIQUE constraint failed: transfers.code"
  ELSE ""

\* the constraint an INSERT INTO transfers violates, "" when it violates none
InsertViolation(table, row) ==
  IF ~AmountCheck(row.amount_cents)
    THEN "CHECK constraint failed: amount_cents > 0"
  ELSE IF ~StatusCheck(row.status)
    THEN "CHECK constraint failed: status"
  ELSE IF \E i \in 1..Len(table) : table[i].code = row.code
    THEN "UNIQUE constraint failed: transfers.code"
  ELSE IF \E i \in 1..Len(table) : table[i].idempotency_key = row.idempotency_key
    THEN "UNIQUE constraint failed: transfers.idempotency_key"
  ELSE ""

\* a row of transfers; id is the AUTOINCREMENT key
TransferRow(table, code, key, body, amount_cents, status, now, message) ==
  [id |-> Len(table) + 1, code |-> code, idempotency_key |-> key,
   from_account_id |-> body.fromAccountId, to_account_id |-> body.toAccountId,
   currency |-> body.currency, amount_cents |-> amount_cents,
   status |-> status, created_at |-> now, error_message |-> message]

(* ----------------------------- responses ------------------------------- *)

NoResp == [http |-> 0]

NoLoc == [none |-> TRUE]

NoReq == [none |-> TRUE]

\* the replay answering with the stored cents as the amount (no / 100)
ReplayResponse_Cents(existing) ==
  [http |-> 200, code |-> existing.code, status |-> existing.status,
   currency |-> existing.currency,
   amount |-> existing.amount_cents,
   createdAt |-> existing.created_at]

\* res.status(200).json({code, status, currency, amount, createdAt})
ReplayResponse(existing) ==
  [http |-> 200, code |-> existing.code, status |-> existing.status,
   currency |-> existing.currency,
   amount |-> CentsToDecimal(existing.amount_cents),
   createdAt |-> existing.created_at]

\* res.status(201).json({code, status, currency, amount, fromBalance, ...})
SuccessResponse(code, body, fromNew, toNew, now) ==
  [http |-> 201, code |-> code, status |-> "COMPLETED",
   currency |-> body.currency, amount |-> body.amount,
   fromBalance |-> CentsToDecimal(fromNew), toBalance |-> CentsToDecimal(toNew),
   createdAt |-> now]

\* res.status(http).json({ error })
ErrorResponse(http, message) == [http |-> http, error |-> message]

\* the status read from a property the errors do not carry (err.status || 500)
ErrHttp_WrongProperty(err) == 500

\* err.http || 500
ErrHttp(err) == IF err.http # 0 THEN err.http ELSE 500

(* ------------------------------ actions -------------------------------- *)

Init ==
  /\ accounts = SeedAccounts
  /\ transfers = <<>>
  /\ clock = 0
  /\ pc = [p \in Procs |-> "idle"]
  /\ req = [p \in Procs |-> NoReq]
  /\ loc = [p \in Procs |-> NoLoc]
  /\ resp = [p \in Procs |-> NoResp]

\* the handler answers: res.status(...).json(...)
Respond(p, response) ==
  /\ resp' = [resp EXCEPT ![p] = response]
  /\ pc' = [pc EXCEPT ![p] = "done"]
  /\ loc' = [loc EXCEPT ![p] = NoLoc]

\* an exception leaves db.transaction (rolled back) for the catch block
Throw(p, err) ==
  IF ErrHttp(err) = 500
    THEN /\ pc' = [pc EXCEPT ![p] = "catch"]
         /\ loc' = [loc EXCEPT ![p] = [err |-> err]]
         /\ UNCHANGED resp
    ELSE Respond(p, ErrorResponse(ErrHttp(err), err.message))

\* POST /transfer, steps 1 to 3: header, payload, idempotency lookup
Start(p, r) ==
  /\ pc[p] = "idle"
  /\ req' = [req EXCEPT ![p] = r]
  /\ IF Trim(r.header) = ""
       THEN Respond(p, ErrorResponse(400, "Idempotency-Key header is required"))
     ELSE IF ~ValidBody(r.body)
       THEN Respond(p, ErrorResponse(422, "Invalid payload"))
     ELSE IF FindByKey(transfers, Trim(r.header)) # NoRow
       THEN Respond(p, ReplayResponse(FindByKey(transfers, Trim(r.header))))
     ELSE /\ pc' = [pc EXCEPT ![p] = "tx"]
          /\ UNCHANGED <<loc, resp>>
  /\ UNCHANGED <<accounts, transfers, clock>>

\* step 4, head of the transaction: load both accounts, business checks
TxRead(p) ==
  /\ pc[p] = "tx"
  /\ LET body == req[p].body
         from == GetAcc(accounts, body.fromAccountId, body.currency)
         to   == GetAcc(accounts, body.toAccountId, body.currency)
     IN IF AccountMissing(from, to)
          THEN Throw(p, [http |-> 404,
                         message |-> "Conta inexistente ou moeda divergente"])
        ELSE IF InsufficientFunds(from, AmountCents(body.amount))
          THEN Throw(p, [http |-> 409, message |-> "Saldo insuficiente"])
        ELSE /\ pc' = [pc EXCEPT ![p] = "write"]
             /\ loc' = [loc EXCEPT ![p] =
                          [from |-> from, to |-> to, snap |-> DbVersion]]
             /\ UNCHANGED resp
  /\ UNCHANGED <<accounts, transfers, clock, req>>

\* step 4, rest of the transaction: debit, credit, record, commit
TxWrite(p) ==
  /\ pc[p] = "write"
  /\ LET body        == req[p].body
         amountCents == AmountCents(body.amount)
         fromBal     == loc[p].from.balance_cents - amountCents
         toBal       == loc[p].to.balance_cents + amountCents
         accs        == UpdateBalance(
                          UpdateBalance(accounts, body.fromAccountId, fromBal),
                          body.toAccountId, toBal)
         code        == NewCode(transfers)
         row         == TransferRow(transfers, code, Trim(req[p].header), body,
                                    amountCents, "COMPLETED", clock, "")
     IN IF StaleSnapshot(loc[p].snap)
          THEN /\ Throw(p, [http |-> 0, message |-> "database is locked"])
               /\ UNCHANGED <<accounts, transfers>>
        ELSE IF ~BalanceCheck(fromBal) \/ ~BalanceCheck(toBal)
          THEN /\ Throw(p, [http |-> 0,
                            message |-> "CHECK constraint failed: balance_cents >= 0"])
               /\ UNCHANGED <<accounts, transfers>>
        ELSE IF InsertViolation(transfers, row) # ""
          THEN /\ Throw(p, [http |-> 0,
                            message |-> InsertViolation(transfers, row)])
               /\ accounts' = Rollback(accounts, accs)
               /\ UNCHANGED transfers
        ELSE /\ accounts' = accs
             /\ transfers' = Append(transfers, row)
             /\ Respond(p, SuccessResponse(code, body,
                             accs[body.fromAccountId].balance_cents,
                             accs[body.toAccountId].balance_cents, clock))
  /\ UNCHANGED <<clock, req>>

\* a storage fault while the transaction writes (I/O error, timeout): rolled
\* back by db.transaction, and thrown on to the catch block
TxFault(p) ==
  /\ pc[p] = "write"
  /\ Throw(p, [http |-> 0, message |-> "disk I/O error"])
  /\ UNCHANGED <<accounts, transfers, clock, req>>

\* the catch block with INSERT OR REPLACE: a row with the same key or code is
\* deleted and the FAILED row takes its place
Catch_Upsert(p) ==
  /\ pc[p] = "catch"
  /\ LET err  == loc[p].err
         row  == TransferRow(transfers, NewCode(transfers), req[p].header,
                             req[p].body, AmountCents(req[p].body.amount),
                             "FAILED", clock, err.message)
         kept == SelectSeq(transfers,
                   LAMBDA t : /\ t.idempotency_key # row.idempotency_key
                              /\ t.code # row.code)
     IN /\ IF /\ ErrHttp(err) = 500
              /\ req[p].header # ""
              /\ AmountCheck(row.amount_cents)
             THEN transfers' = Append(kept, row)
             ELSE UNCHANGED transfers
        /\ Respond(p, ErrorResponse(ErrHttp(err), err.message))
  /\ UNCHANGED <<accounts, clock, req>>

\* the catch block: best-effort FAILED record, then the error response
Catch(p) ==
  /\ pc[p] = "catch"
  /\ LET err == loc[p].err
         row == TransferRow(transfers, NewCode(transfers), req[p].header,
                            req[p].body, AmountCents(req[p].body.amount),
                            "FAILED", clock, err.message)
     IN /\ IF /\ ErrHttp(err) = 500
              /\ req[p].header # ""
              /\ InsertViolation(transfers, row) = ""
             THEN transfers' = Append(transfers, row)
             ELSE UNCHANGED transfers
        /\ Respond(p, ErrorResponse(ErrHttp(err), err.message))
  /\ UNCHANGED <<accounts, clock, req>>

\* the client has the response; the slot takes the next request
Finish(p) ==
  /\ pc[p] = "done"
  /\ pc' = [pc EXCEPT ![p] = "idle"]
  /\ req' = [req EXCEPT ![p] = NoReq]
  /\ resp' = [resp EXCEPT ![p] = NoResp]
  /\ UNCHANGED <<accounts, transfers, clock, loc>>

\* time passes: new Date() moves on
Tick ==
  /\ clock < MaxClock
  /\ clock' = clock + 1
  /\ UNCHANGED <<accounts, transfers, pc, req, loc, resp>>

Next ==
  \/ \E p \in Procs, r \in Requests : Start(p, r)
  \/ \E p \in Procs : TxRead(p)
  \/ \E p \in Procs : TxWrite(p)
  \/ \E p \in Procs : TxFault(p)
  \/ \E p \in Procs : Catch(p)
  \/ \E p \in Procs : Finish(p)
  \/ Tick

Spec == Init /\ [][Next]_vars

(* ---------------- requests with a padded Idempotency-Key --------------- *)

\* header values of a client that sends the key k1 bare or padded with U+00A0
PaddedHeaders == {"k1", "k1<NBSP>"}

\* two transfers between the seeded accounts, 50.004 and 50.00
PaddedBodies ==
  { Body("A-100", "B-200", "BRL", 50004),
    Body("B-200", "A-100", "BRL", 50000) }

PaddedRequests == [header : PaddedHeaders, body : PaddedBodies]

NextPadded ==
  \/ \E p \in Procs, r \in PaddedRequests : Start(p, r)
  \/ \E p \in Procs : TxRead(p)
  \/ \E p \in Procs : TxWrite(p)
  \/ \E p \in Procs : TxFault(p)
  \/ \E p \in Procs : Catch(p)
  \/ \E p \in Procs : Finish(p)
  \/ Tick

SpecPadded == Init /\ [][NextPadded]_vars

(* ------------------------------ lookups -------------------------------- *)

\* ids a GET /accounts/:id may name: the seeded accounts and an unknown one
AccountIds == {"A-100", "B-200", "C-300"}

\* ids a GET /transfers/:id may name: a code (codes are numbered in the order
\* of insertion) or an idempotency key
TransferIds ==
  {[by |-> "code", code |-> c, key |-> ""] : c \in {1, 2}}
    \cup {[by |-> "key", code |-> 0, key |-> k] : k \in {"k1", "k2"}}

\* db.getTransactionById?.(id): the Database object has no such method, the
\* optional call yields undefined
GetTransactionById(id) == NoRow

\* GET /accounts/:id: db.getAccount is not a function of the Database
\* object, the call throws a TypeError and Express answers 500
GetAccount(p, id) ==
  /\ pc[p] = "idle"
  /\ req' = [req EXCEPT ![p] = [route |-> "GET /accounts/:id", id |-> id]]
  /\ Respond(p, ErrorResponse(500, "db.getAccount is not a function"))
  /\ UNCHANGED <<accounts, transfers, clock>>

\* GET /transfers/:id
GetTransfer(p, id) ==
  /\ pc[p] = "idle"
  /\ req' = [req EXCEPT ![p] = [route |-> "GET /transfers/:id", id |-> id]]
  /\ IF GetTransactionById(id) = NoRow
       THEN Respond(p, ErrorResponse(404, "transfer_not_found"))
       ELSE Respond(p, [http |-> 200, body |-> GetTransactionById(id)])
  /\ UNCHANGED <<accounts, transfers, clock>>

NextGet ==
  \/ NextPadded
  \/ \E p \in Procs, id \in AccountIds : GetAccount(p, id)
  \/ \E p \in Procs, id \in TransferIds : GetTransfer(p, id)

SpecGet == Init /\ [][NextGet]_vars

(* ------------------------ derived quantities --------------------------- *)

RECURSIVE SumBalances(_, _)
\* the sum of balance_cents over the accounts ids of accs
SumBalances(accs, ids) ==
  IF ids = {} THEN 0
  ELSE LET id == CHOOSE x \in ids : TRUE
       IN accs[id].balance_cents + SumBalances(accs, ids \ {id})

RECURSIVE NetMoved(_, _, _)
\* cents credited to id minus cents debited from id by the COMPLETED rows
\* among the first n rows of table
NetMoved(table, id, n) ==
  IF n = 0 THEN 0
  ELSE NetMoved(table, id, n - 1)
       + (IF table[n].status = "COMPLETED" /\ table[n].to_account_id = id
            THEN table[n].amount_cents ELSE 0)
       - (IF table[n].status = "COMPLETED" /\ table[n].from_account_id = id
            THEN table[n].amount_cents ELSE 0)

\* some row of table carries the idempotency key
KeyRecorded(table, key) ==
  \E i \in 1..Len(table) : table[i].idempotency_key = key

\* the JSON body of a response, without the HTTP status
ResponseBody(response) ==
  [f \in (DOMAIN response) \ {"http"} |-> response[f]]

\* the HTTP statuses of the InvalidRequest kind
InvalidRequestStatus == {400, 422}

(* ------------------------------ claims --------------------------------- *)

\* C1. Conservation: whatever POST /transfer requests were served (completed,
\* rejected, replayed or faulted), the balances of all accounts add up to
\* what they added up to initially.
C1_Conservation ==
  SumBalances(accounts, DOMAIN accounts)
    = SumBalances(SeedAccounts, DOMAIN SeedAccounts)

\* a transfer completed and moved money
C1_Witness ==
  /\ \E i \in 1..Len(transfers) : transfers[i].status = "COMPLETED"
  /\ accounts # SeedAccounts

\* C2. No negative balances: every balance is >= 0 in every state, and a
\* handler is past the balance check, about to debit, only if the source
\* balance it read in the transaction is at least the amount in cents.
C2_NoNegativeBalance ==
  /\ \A id \in DOMAIN accounts : accounts[id].balance_cents >= 0
  /\ \A p \in Procs :
       pc[p] = "write" =>
         loc[p].from.balance_cents >= AmountCents(req[p].body.amount)

\* a transfer of the whole balance was applied: the source is at exactly 0
C2_Witness ==
  /\ accounts["B-200"].balance_cents = 0
  /\ \E i \in 1..Len(transfers) :
       /\ transfers[i].status = "COMPLETED"
       /\ transfers[i].from_account_id = "B-200"

\* C3. Exactly once under sequential retries: a request that arrives when a
\* record with its idempotency key exists ends in its first step, leaves
\* every balance and the transfers table as they were, and no two records
\* ever carry the same idempotency key.
C3_ExactlyOnce ==
  [][ /\ \A p \in Procs :
           (/\ pc[p] = "idle"
            /\ pc'[p] # "idle"
            /\ KeyRecorded(transfers, Trim(req'[p].header)))
           => (/\ pc'[p] = "done"
               /\ accounts' = accounts
               /\ transfers' = transfers)
      /\ \A i, j \in 1..Len(transfers') :
           transfers'[i].idempotency_key = transfers'[j].idempotency_key
             => i = j ]_vars

\* a retry was answered from the record of its key
C3_Witness ==
  \E p \in Procs :
    /\ pc[p] = "done"
    /\ resp[p].http = 200
    /\ KeyRecorded(transfers, Trim(req[p].header))

\* C4. Identical replay response: when a request completed and the same
\* request (same key, accounts, currency, amount) is then answered from the
\* record, the two response bodies have the same fields with the same values.
C4_IdenticalReplay ==
  \A p, q \in Procs :
    (/\ pc[p] = "done" /\ pc[q] = "done"
     /\ req[p] = req[q]
     /\ resp[p].http = 201
     /\ resp[q].http = 200)
    => ResponseBody(resp[q]) = ResponseBody(resp[p])

\* C5. Key uniqueness under concurrency: in every state of every
\* interleaving, no two transfer records carry the same idempotency key, and
\* every balance is the seed balance plus the COMPLETED records' net movement,
\* so the balances were moved at most once per key.
C5_KeyUniqueness ==
  /\ \A i, j \in 1..Len(transfers) :
       transfers[i].idempotency_key = transfers[j].idempotency_key => i = j
  /\ \A id \in DOMAIN accounts :
       accounts[id].balance_cents
         = SeedAccounts[id].balance_cents
           + NetMoved(transfers, id, Len(transfers))

\* two handlers raced on one key: one completed, the other ended in an error
C5_Witness ==
  \E p, q \in Procs :
    /\ p # q
    /\ pc[p] = "done" /\ pc[q] = "done"
    /\ Trim(req[p].header) = Trim(req[q].header)
    /\ resp[p].http = 201
    /\ resp[q].http = 500

\* C6. Loser replays: a handler that passed the initial lookup and ends when
\* a record of the same request under the same key exists (it lost the race
\* against an identical call) answers with that record's code.
C6_LoserReplays ==
  [][ \A p \in Procs :
        (/\ pc[p] \in {"tx", "write", "catch"}
         /\ pc'[p] = "done"
         /\ \E i \in 1..Len(transfers) :
              /\ transfers[i].idempotency_key = Trim(req[p].header)
              /\ transfers[i].from_account_id = req[p].body.fromAccountId
              /\ transfers[i].to_account_id = req[p].body.toAccountId
              /\ transfers[i].currency = req[p].body.currency
              /\ transfers[i].amount_cents = AmountCents(req[p].body.amount))
        => (/\ "code" \in DOMAIN resp'[p]
            /\ \E i \in 1..Len(transfers) :
                 /\ transfers[i].idempotency_key = Trim(req[p].header)
                 /\ resp'[p].code = transfers[i].code) ]_vars

\* C7. Insufficient funds leaves state untouched: a handler that loads both
\* accounts and reads a source balance below the amount answers 409 Saldo
\* insuficiente, and balances and the transfers table are as before.
C7_InsufficientFunds ==
  [][ \A p \in Procs :
        (/\ pc[p] = "tx"
         /\ pc'[p] # "tx"
         /\ req[p].body.fromAccountId \in DOMAIN accounts
         /\ req[p].body.toAccountId \in DOMAIN accounts
         /\ accounts[req[p].body.fromAccountId].currency = req[p].body.currency
         /\ accounts[req[p].body.toAccountId].currency = req[p].body.currency
         /\ accounts[req[p].body.fromAccountId].balance_cents
              < AmountCents(req[p].body.amount))
        => (/\ pc'[p] = "done"
            /\ resp'[p] = [http |-> 409, error |-> "Saldo insuficiente"]
            /\ accounts' = accounts
            /\ transfers' = transfers) ]_vars

\* a transfer was rejected for insufficient funds
C7_Witness ==
  \E p \in Procs : pc[p] = "done" /\ resp[p].http = 409

\* C8. Account not found: a handler whose source or destination id is no
\* account, or is an account of another currency than the requested one,
\* answers 404, and balances and the transfers table are as before.
C8_AccountNotFound ==
  [][ \A p \in Procs :
        (/\ pc[p] = "tx"
         /\ pc'[p] # "tx"
         /\ \E id \in {req[p].body.fromAccountId, req[p].body.toAccountId} :
              \/ id \notin DOMAIN accounts
              \/ accounts[id].currency # req[p].body.currency)
        => (/\ pc'[p] = "done"
            /\ resp'[p].http = 404
            /\ accounts' = accounts
            /\ transfers' = transfers) ]_vars

\* a transfer naming an existing source and an unknown destination was
\* rejected as not found
C8_Witness ==
  \E p \in Procs :
    /\ pc[p] = "done"
    /\ resp[p].http = 404
    /\ req[p].body.fromAccountId \in DOMAIN accounts
    /\ req[p].body.toAccountId \notin DOMAIN accounts

\* C9. Rejection of self-transfer: a request whose source and destination
\* are the same id is answered in its first step with an InvalidRequest
\* status, whatever the balances, whether the account exists and whether the
\* key is recorded, and balances and the transfers table are as before.
C9_SelfTransfer ==
  [][ \A p \in Procs :
        (/\ pc[p] = "idle"
         /\ pc'[p] # "idle"
         /\ req'[p].body.fromAccountId = req'[p].body.toAccountId)
        => (/\ pc'[p] = "done"
            /\ resp'[p].http \in InvalidRequestStatus
            /\ accounts' = accounts
            /\ transfers' = transfers) ]_vars

\* a self-transfer under an already recorded key was rejected
C9_Witness ==
  \E p \in Procs :
    /\ pc[p] = "done"
    /\ req[p].body.fromAccountId = req[p].body.toAccountId
    /\ resp[p].http = 422
    /\ KeyRecorded(transfers, Trim(req[p].header))

\* C10. Non-positive amount is an InvalidRequest: a request whose amount in
\* cents is not strictly positive never gets past validation; it is answered
\* with an InvalidRequest status.
C10_NonPositiveAmount ==
  \A p \in Procs :
    (pc[p] # "idle" /\ AmountCents(req[p].body.amount) <= 0)
    => (pc[p] = "done" /\ resp[p].http \in InvalidRequestStatus)

\* C11. No partial application: in every state each account's balance is its
\* seed balance plus the amounts of the COMPLETED records crediting it minus
\* the amounts of those debiting it, so no debit shows without its credit and
\* its record, also after a transaction that aborted behind its UPDATEs.
C11_LedgerConsistency ==
  \A id \in DOMAIN SeedAccounts :
    accounts[id].balance_cents - SeedAccounts[id].balance_cents
      = NetMoved(transfers, id, Len(transfers))

\* a transaction ran both UPDATEs and aborted on its INSERT, after another
\* transfer had moved money
C11_Witness ==
  /\ accounts # SeedAccounts
  /\ \E p \in Procs :
       /\ pc[p] = "catch"
       /\ loc[p].err.message
            = "UNIQUE constraint failed: transfers.idempotency_key"

\* C12. Append-only terminal states: no step changes or removes a stored
\* transfer record, rows are only appended, and every stored record has
\* status COMPLETED or FAILED (never REVERSED).
C12_AppendOnly ==
  [][ /\ Len(transfers') >= Len(transfers)
      /\ \A i \in 1..Len(transfers) : transfers'[i] = transfers[i]
      /\ \A i \in 1..Len(transfers') :
           transfers'[i].status \in {"COMPLETED", "FAILED"} ]_vars

\* a COMPLETED and a FAILED record are stored, and a handler that raced on
\* the COMPLETED record's key has gone through its catch block
C12_Witness ==
  /\ \E i, j \in 1..Len(transfers) :
       transfers[i].status = "COMPLETED" /\ transfers[j].status = "FAILED"
  /\ \E p \in Procs :
       /\ pc[p] = "done"
       /\ resp[p].http = 500
       /\ \E i \in 1..Len(transfers) :
            /\ transfers[i].status = "COMPLETED"
            /\ transfers[i].idempotency_key = Trim(req[p].header)

\* C13. No lost updates: a transfer that commits debits its source and
\* credits its destination by its amount relative to the balances stored at
\* the moment of the commit (not to an older read), and touches no other
\* account; the final balances are those of the commits applied one by one.
C13_NoLostUpdate ==
  [][ \A p \in Procs :
        (pc[p] = "write" /\ pc'[p] = "done" /\ resp'[p].http = 201)
        => LET from == req[p].body.fromAccountId
               to   == req[p].body.toAccountId
               amt  == AmountCents(req[p].body.amount)
           IN /\ accounts'[from].balance_cents
                   = accounts[from].balance_cents - amt
              /\ accounts'[to].balance_cents
                   = accounts[to].balance_cents + amt
              /\ \A id \in DOMAIN accounts \ {from, to} :
                   accounts'[id] = accounts[id] ]_vars

\* two transfers with distinct keys on the same accounts overlapped: one
\* committed, the other was refused its write on a stale snapshot
C13_Witness ==
  \E p, q \in Procs :
    /\ pc[p] = "done" /\ pc[q] = "done"
    /\ Trim(req[p].header) # Trim(req[q].header)
    /\ resp[p].http = 201
    /\ resp[q] = [http |-> 500, error |-> "database is locked"]

\* C14. Failure-record policy: the FAILED record written after an unexpected
\* error carries the key under which retries are looked up, so a well-formed
\* request that arrives with the Idempotency-Key header of a stored FAILED
\* record is answered with that record and is not executed again.
C14_FailedRecordReplayed ==
  [][ \A p \in Procs :
        (/\ pc[p] = "idle"
         /\ pc'[p] # "idle"
         /\ ValidBody(req'[p].body)
         /\ \E i \in 1..Len(transfers) :
              /\ transfers[i].status = "FAILED"
              /\ transfers[i].idempotency_key = req'[p].header)
        => (/\ pc'[p] = "done"
            /\ resp'[p].http = 200
            /\ \E i \in 1..Len(transfers) :
                 /\ transfers[i].status = "FAILED"
                 /\ transfers[i].idempotency_key = req'[p].header
                 /\ resp'[p].code = transfers[i].code) ]_vars

\* C15. getTransfer: a GET /transfers/:id naming the code or the idempotency
\* key of a stored transfer is answered 200 with that transfer, and 404 only
\* when no stored transfer has that code or key.
C15_GetTransfer ==
  [][ \A p \in Procs :
        (/\ pc[p] = "idle"
         /\ pc'[p] = "done"
         /\ "route" \in DOMAIN req'[p]
         /\ req'[p].route = "GET /transfers/:id")
        => LET id  == req'[p].id
               hit == {i \in 1..Len(transfers) :
                         \/ id.by = "code" /\ transfers[i].code = id.code
                         \/ id.by = "key"
                            /\ transfers[i].idempotency_key = id.key}
           IN IF hit = {}
                THEN resp'[p].http = 404
                ELSE /\ resp'[p].http = 200
                     /\ \E i \in hit : resp'[p].body = transfers[i] ]_vars

\* C16. getAccount: a GET /accounts/:id is answered 200 with the stored
\* account and its current balance when the id is an account, 404 when it is
\* not, and never with an unexpected failure.
C16_GetAccount ==
  [][ \A p \in Procs :
        (/\ pc[p] = "idle"
         /\ pc'[p] = "done"
         /\ "route" \in DOMAIN req'[p]
         /\ req'[p].route = "GET /accounts/:id")
        => IF req'[p].id \in DOMAIN accounts
             THEN /\ resp'[p].http = 200
                  /\ resp'[p].body = accounts[req'[p].id]
             ELSE resp'[p].http = 404 ]_vars

\* C17. Replay is not re-validated against the body: a request with a
\* well-formed body that arrives under a recorded key is answered 200 with
\* the stored record's code, status, currency, amount (cents / 100) and
\* createdAt, whatever accounts, currency and amount its body names, and
\* balances and records are as before.
C17_ReplayIgnoresBody ==
  [][ \A p \in Procs :
        (/\ pc[p] = "idle"
         /\ pc'[p] # "idle"
         /\ "header" \in DOMAIN req'[p]
         /\ ValidBody(req'[p].body)
         /\ KeyRecorded(transfers, Trim(req'[p].header)))
        => (/\ pc'[p] = "done"
            /\ accounts' = accounts
            /\ transfers' = transfers
            /\ \E i \in 1..Len(transfers) :
                 /\ transfers[i].idempotency_key = Trim(req'[p].header)
                 /\ resp'[p] = [http |-> 200,
                                code |-> transfers[i].code,
                                status |-> transfers[i].status,
                                currency |-> transfers[i].currency,
                                amount |-> 10 * transfers[i].amount_cents,
                                createdAt |-> transfers[i].created_at]) ]_vars

\* a request naming other accounts and another currency than the record of
\* its key, sent at a later time, was answered from the record
C17_Witness ==
  \E p \in Procs :
    /\ pc[p] = "done"
    /\ resp[p].http = 200
    /\ \E i \in 1..Len(transfers) :
         /\ transfers[i].idempotency_key = Trim(req[p].header)
         /\ transfers[i].from_account_id # req[p].body.fromAccountId
         /\ transfers[i].currency # req[p].body.currency
         /\ resp[p].currency = transfers[i].currency
         /\ transfers[i].created_at < clock

\* C18. Well-formed completed transfers: every COMPLETED record has a
\* positive amount in cents, distinct source and destination, and both are
\* accounts that exist and have the record's currency.
C18_WellFormedCompleted ==
  \A i \in 1..Len(transfers) :
    transfers[i].status = "COMPLETED"
    => /\ transfers[i].amount_cents > 0
       /\ transfers[i].from_account_id # transfers[i].to_account_id
       /\ \A id \in {transfers[i].from_account_id, transfers[i].to_account_id} :
            /\ id \in DOMAIN accounts
            /\ accounts[id].currency = transfers[i].currency

\* two COMPLETED records are stored, one in each direction
C18_Witness ==
  \E i, j \in 1..Len(transfers) :
    /\ transfers[i].status = "COMPLETED"
    /\ transfers[j].status = "COMPLETED"
    /\ transfers[i].from_account_id = transfers[j].to_account_id
    /\ transfers[i].to_account_id = transfers[j].from_account_id

\* C19. A business rejection does not consume the idempotency key: a handler
\* that ends on a missing account or on insufficient funds writes no record,
\* and a well-formed request whose key has no record is not replayed but
\* goes on to the transaction, also after a rejection under that key.
C19_RejectionKeepsKey ==
  [][ \A p \in Procs :
        /\ (/\ pc[p] \in {"tx", "catch"}
            /\ pc'[p] = "done"
            /\ \/ pc[p] = "catch" /\ loc[p].err.http \in {404, 409}
               \/ /\ pc[p] = "tx"
                  /\ \/ \E id \in {req[p].body.fromAccountId,
                                   req[p].body.toAccountId} :
                          \/ id \notin DOMAIN accounts
                          \/ accounts[id].currency # req[p].body.currency
                     \/ accounts[req[p].body.fromAccountId].balance_cents
                          < AmountCents(req[p].body.amount))
           => (/\ transfers' = transfers
               /\ accounts' = accounts
               /\ resp'[p].http \in {404, 409})
        /\ (/\ pc[p] = "idle"
            /\ pc'[p] # "idle"
            /\ "header" \in DOMAIN req'[p]
            /\ Trim(req'[p].header) # ""
            /\ ValidBody(req'[p].body)
            /\ ~KeyRecorded(transfers, Trim(req'[p].header)))
           => pc'[p] = "tx" ]_vars

\* a request was rejected as not found under a key, and a request under the
\* same key completed: the key's only record is the COMPLETED one
C19_Witness ==
  \E p, q \in Procs :
    /\ pc[p] = "done" /\ pc[q] = "done"
    /\ Trim(req[p].header) = Trim(req[q].header)
    /\ resp[q].http \in {404, 409}
    /\ resp[p].http = 201
    /\ \E i \in 1..Len(transfers) :
         /\ transfers[i].idempotency_key = Trim(req[p].header)
         /\ transfers[i].code = resp[p].code

====
